---- MODULE Spec2Model ----
(***************************************************************************)
(* A model of stac_static.search: the ItemSearch query object, its         *)
(* parameter normalizers (_format_xxx), the evaluation pass _search and the *)
(* memoizing accessors (result, item_collection, items, ...).              *)
(*                                                                         *)
(* Python values are encoded as follows.                                   *)
(*   - A str that the code splits is a sequence of tokens: a token is      *)
(*     either the separator character or a maximal run of other            *)
(*     characters (an atomic TLA+ string).                                 *)
(*   - None inside a sequence argument is the token NoneTok.               *)
(*   - An Optional result is a record [exc, some, v]: exc is the raised    *)
(*     exception (NoErr when none), some = FALSE is None.                  *)
(*   - An instant is an integer: the day's ordinal times TicksPerDay plus  *)
(*     the tick within the day; tick 0 is 00:00:00.000000000 and tick      *)
(*     TicksPerDay - 1 is 23:59:59.999999999.                              *)
(*   - A geometry is an axis-aligned rectangle <<minx, miny, maxx, maxy>>. *)
(*   - A dict argument lives in the heap and is referred to by name, so    *)
(*     that aliasing and copying are distinguishable.                      *)
(***************************************************************************)
EXTENDS Integers, Sequences, FiniteSets, TLC

\* Bounds of the model.
MaxRecords == 2
MaxCalls == 3
TicksPerDay == 3

Threads == {"t1", "t2"}

VARIABLES
    catalog,        \* the catalog argument: [kind, items]
    args,           \* the seven keyword arguments as the caller passed them
    heap,           \* contents of the mutable objects: the caller's dicts and the copies
    pc,             \* "new" (not constructed), "ready", "failed" (__init__ raised)
    err,            \* the exception __init__ raised
    materialized,   \* to_geodataframe has read the catalog's items
    df,             \* self.df
    parameters,     \* self._parameters
    result,         \* the cached_property cell: <<>> or <<rows>>
    itemCache,      \* the functools.cache cell of item_collection: <<>> or <<items>>
    searchCalls,    \* number of times _search has been entered
    gens,           \* generators created by items() / items_as_dicts(), not yet run
    last,           \* what the last accessor call returned or raised
    tpc,            \* per thread: position inside cached_property.__get__
    tlocal          \* per thread: the value its _search computed / it returned

vars == <<catalog, args, heap, pc, err, materialized, df, parameters, result,
          itemCache, searchCalls, gens, last, tpc, tlocal>>

----------------------------------------------------------------------------
\* Exceptions and Optional values

NoErr == [type |-> "", msg |-> "", actual |-> 0]

Exc(type, msg, actual) == [type |-> type, msg |-> msg, actual |-> actual]

Ret(v) == [exc |-> NoErr, some |-> TRUE, v |-> v]

RetNone == [exc |-> NoErr, some |-> FALSE, v |-> <<>>]

Raise(e) == [exc |-> e, some |-> FALSE, v |-> <<>>]

NoneTok == "<None>"

NoneArg == [kind |-> "None", val |-> <<>>]

----------------------------------------------------------------------------
\* str.split(sep) on a tokenised string

RECURSIVE SplitAcc(_, _, _, _)
SplitAcc(s, sep, cur, acc) ==
    IF s = <<>> THEN Append(acc, cur)
    ELSE IF Head(s) = sep THEN SplitAcc(Tail(s), sep, "", Append(acc, cur))
    ELSE SplitAcc(Tail(s), sep, Head(s), acc)

Split(s, sep) == SplitAcc(s, sep, "", <<>>)

\* float(x) for the literals of the model; anything else raises ValueError
IsNumeric(tok) == tok \in {"0", "1", "2", "3", "4", "5", "9"}

FloatOf(tok) ==
    CASE tok = "0" -> 0 [] tok = "1" -> 1 [] tok = "2" -> 2 [] tok = "3" -> 3
      [] tok = "4" -> 4 [] tok = "5" -> 5 [] tok = "9" -> 9

----------------------------------------------------------------------------
\* pd.Period: the calendar period a date string denotes

IsLeap(y) == (y % 4 = 0 /\ y % 100 # 0) \/ y % 400 = 0

DaysInMonth(y, m) ==
    IF m = 2 THEN (IF IsLeap(y) THEN 29 ELSE 28)
    ELSE IF m \in {4, 6, 9, 11} THEN 30 ELSE 31

RECURSIVE DaysBeforeMonth(_, _)
DaysBeforeMonth(y, m) ==
    IF m = 1 THEN 0 ELSE DaysBeforeMonth(y, m - 1) + DaysInMonth(y, m - 1)

RECURSIVE DaysBeforeYear(_)
DaysBeforeYear(y) ==
    IF y <= 2020 THEN 0
    ELSE DaysBeforeYear(y - 1) + (IF IsLeap(y - 1) THEN 366 ELSE 365)

DayOrdinal(y, m, d) == DaysBeforeYear(y) + DaysBeforeMonth(y, m) + (d - 1)

Instant(y, m, d, tick) == DayOrdinal(y, m, d) * TicksPerDay + tick

LastTick == TicksPerDay - 1

\* the date strings pd.Period can parse, with the precision it infers
IsPeriodString(tok) ==
    tok \in {"2022", "2023", "2022-03", "2024-02", "2022-03-31", "2022-04-01"}

ParsePeriod(tok) ==
    CASE tok = "2022" -> [freq |-> "Y", y |-> 2022, m |-> 1, d |-> 1]
      [] tok = "2023" -> [freq |-> "Y", y |-> 2023, m |-> 1, d |-> 1]
      [] tok = "2022-03" -> [freq |-> "M", y |-> 2022, m |-> 3, d |-> 1]
      [] tok = "2024-02" -> [freq |-> "M", y |-> 2024, m |-> 2, d |-> 1]
      [] tok = "2022-03-31" -> [freq |-> "D", y |-> 2022, m |-> 3, d |-> 31]
      [] tok = "2022-04-01" -> [freq |-> "D", y |-> 2022, m |-> 4, d |-> 1]

\* Period.start_time.tz_localize("utc")
StartTime(p) ==
    CASE p.freq = "Y" -> Instant(p.y, 1, 1, 0)
      [] p.freq = "M" -> Instant(p.y, p.m, 1, 0)
      [] p.freq = "D" -> Instant(p.y, p.m, p.d, 0)

\* Period.end_time.tz_localize("utc")
EndTime(p) ==
    CASE p.freq = "Y" -> Instant(p.y, 12, 31, LastTick)
      [] p.freq = "M" -> Instant(p.y, p.m, DaysInMonth(p.y, p.m), LastTick)
      [] p.freq = "D" -> Instant(p.y, p.m, p.d, LastTick)

DateParseError == Exc("ValueError", "DateParseError", 0)

----------------------------------------------------------------------------
\* The parameter normalizers

\* ItemSearch._format_bbox
FormatBbox(value) ==
    IF value.kind = "None" THEN RetNone
    ELSE LET comps == IF value.kind = "str" THEN Split(value.val, ",") ELSE value.val
         IN IF \E i \in 1..Len(comps) : ~IsNumeric(comps[i])
            THEN Raise(Exc("ValueError", "could not convert string to float", 0))
            ELSE Ret([i \in 1..Len(comps) |-> FloatOf(comps[i])])

\* _format_datetime without the component-count check: a range is read from
\* the first two components whatever follows them
FormatDatetimeLenient(value) ==
    IF value.kind = "None" THEN RetNone
    ELSE LET raw == IF value.kind = "str" THEN Split(value.val, "/") ELSE value.val
             components == SelectSeq(raw, LAMBDA c : c # NoneTok)
         IN IF components = <<>> THEN RetNone
            ELSE IF Len(components) = 1
            THEN IF ~IsPeriodString(components[1]) THEN Raise(DateParseError)
                 ELSE LET period == ParsePeriod(components[1])
                      IN Ret(<< <<StartTime(period)>>, <<EndTime(period)>> >>)
            ELSE IF components[1] # ".." /\ ~IsPeriodString(components[1])
                 THEN Raise(DateParseError)
                 ELSE IF components[2] # ".." /\ ~IsPeriodString(components[2])
                 THEN Raise(DateParseError)
                 ELSE LET start == IF components[1] = ".." THEN <<>>
                                   ELSE <<StartTime(ParsePeriod(components[1]))>>
                          end == IF components[2] = ".." THEN <<>>
                                 ELSE <<EndTime(ParsePeriod(components[2]))>>
                      IN Ret(<<start, end>>)

\* ItemSearch._format_datetime
FormatDatetime(value) ==
    IF value.kind = "None" THEN RetNone
    ELSE LET raw == IF value.kind = "str" THEN Split(value.val, "/") ELSE value.val
             components == SelectSeq(raw, LAMBDA c : c # NoneTok)
         IN IF components = <<>> THEN RetNone
            ELSE IF Len(components) = 1
            THEN IF ~IsPeriodString(components[1]) THEN Raise(DateParseError)
                 ELSE LET period == ParsePeriod(components[1])
                      IN Ret(<< <<StartTime(period)>>, <<EndTime(period)>> >>)
            ELSE IF Len(components) = 2
            THEN IF components[1] # ".." /\ ~IsPeriodString(components[1])
                 THEN Raise(DateParseError)
                 ELSE IF components[2] # ".." /\ ~IsPeriodString(components[2])
                 THEN Raise(DateParseError)
                 ELSE LET start == IF components[1] = ".." THEN <<>>
                                   ELSE <<StartTime(ParsePeriod(components[1]))>>
                          end == IF components[2] = ".." THEN <<>>
                                 ELSE <<EndTime(ParsePeriod(components[2]))>>
                      IN Ret(<<start, end>>)
            ELSE Raise(Exc("Exception", "too many datetime components (max=2)",
                           Len(components)))

\* ItemSearch._format_listlike
FormatListlike(value) ==
    IF value.kind = "None" THEN RetNone
    ELSE IF value.kind = "str" THEN Ret(Split(value.val, ","))
    ELSE Ret(value.val)

\* _format_filter_lang returning a given language before looking at the filter
FormatFilterLangEager(filter, value) ==
    IF value.kind # "None" THEN Ret(value.val[1])
    ELSE IF filter.kind = "None" THEN RetNone
    ELSE IF filter.kind = "str" THEN Ret("cql2-text")
    ELSE IF filter.kind = "dict" THEN Ret("cql2-json")
    ELSE RetNone

\* ItemSearch._format_filter_lang
FormatFilterLang(filter, value) ==
    IF filter.kind = "None" THEN RetNone
    ELSE IF value.kind # "None" THEN Ret(value.val[1])
    ELSE IF filter.kind = "str" THEN Ret("cql2-text")
    ELSE IF filter.kind = "dict" THEN Ret("cql2-json")
    ELSE RetNone

\* json.loads on the JSON texts of the model
IsJson(tok) == tok \in {"{boxA}", "{boxB}"}

GeoA == <<0, 0, 1, 1>>

GeoB == <<2, 0, 3, 1>>

JsonLoads(tok) == CASE tok = "{boxA}" -> GeoA [] tok = "{boxB}" -> GeoB

\* ItemSearch._format_intersects: the result is a reference to an object and
\* the content that object has when the normalizer returns
FormatIntersects(value, h) ==
    IF value.kind = "None" THEN RetNone
    ELSE IF value.kind = "dict"
    THEN Ret([ref |-> "intersectsOwn", content |-> h.intersectsArg])
    ELSE IF value.kind = "str"
    THEN IF IsJson(value.val[1])
         THEN Ret([ref |-> "intersectsOwn", content |-> JsonLoads(value.val[1])])
         ELSE Raise(Exc("ValueError", "JSONDecodeError", 0))
    ELSE IF value.kind = "geo"
    THEN Ret([ref |-> "intersectsOwn", content |-> h.intersectsArg])
    ELSE Raise(Exc("Exception", "intersects must be of type None, str, dict, ...", 0))

\* "filter": filter  (search.py line 192): the argument itself is stored
FormatFilter(value, h) ==
    IF value.kind = "None" THEN RetNone
    ELSE Ret([ref |-> "filterArg", content |-> h.filterArg])

----------------------------------------------------------------------------
\* The record collection

RecordIds == <<"a", "b", "c", "d", "e">>

\* One record per catalog item: records lie side by side along the x axis;
\* record 1 is stamped at the last instant of 2022-03-31 and record 2 at the
\* first instant of 2022-04-01.
RecordAt(i) ==
    [id |-> RecordIds[i],
     collection |-> IF i % 2 = 1 THEN "c1" ELSE "c2",
     geometry |-> <<2 * (i - 1), 0, 2 * (i - 1) + 1, 1>>,
     datetime |-> IF i = 1 THEN Instant(2022, 3, 31, LastTick)
                  ELSE IF i = 2 THEN Instant(2022, 4, 1, 0)
                  ELSE Instant(2023, i, 1, 1)]

RECURSIVE TableOf(_, _)
TableOf(S, i) ==
    IF i > MaxRecords THEN <<>>
    ELSE IF i \in S THEN <<RecordAt(i)>> \o TableOf(S, i + 1)
    ELSE TableOf(S, i + 1)

Tables == {TableOf(S, 1) : S \in SUBSET (1..MaxRecords)}

\* stac_geoparquet.to_geodataframe over the catalog's items: one row per item
ToGeodataframe(cat) ==
    [i \in 1..Len(cat.items) |->
        [id |-> cat.items[i].id, collection |-> cat.items[i].collection,
         geometry |-> cat.items[i].geometry, datetime |-> cat.items[i].datetime]]

IsPystac(cat) == cat.kind \in {"Catalog", "Collection", "ItemCollection"}

----------------------------------------------------------------------------
\* The evaluation pass

Min(a, b) == IF a <= b THEN a ELSE b

Max(a, b) == IF a >= b THEN a ELSE b

\* geometry.intersects(other) on rectangles (closed sets: touching counts)
Intersects(g, o) ==
    /\ Max(Min(g[1], g[3]), Min(o[1], o[3])) <= Min(Max(g[1], g[3]), Max(o[1], o[3]))
    /\ Max(Min(g[2], g[4]), Min(o[2], o[4])) <= Min(Max(g[2], g[4]), Max(o[2], o[4]))

\* shapely.geometry.box(*bbox): box(minx, miny, maxx, maxy, ccw=True)
Box(bbox) ==
    IF Len(bbox) \in {4, 5} THEN Ret(<<bbox[1], bbox[2], bbox[3], bbox[4]>>)
    ELSE Raise(Exc("TypeError", "box() positional arguments", Len(bbox)))

InSeq(x, s) == \E i \in 1..Len(s) : s[i] = x

\* params["filter-lang"].replace("-", "_")
DashToUnderscore(tag) ==
    CASE tag = "cql2-json" -> "cql2_json"
      [] tag = "cql2-text" -> "cql2_text"
      [] tag = "cql-json" -> "cql_json"
      [] OTHER -> tag

\* class Parsers
ParserNames == {"cql2_json", "cql2_text"}

\* a parser lookup that falls back to cql2_json instead of failing
GetParserDefaulting(p) ==
    IF "filter-lang" \notin DOMAIN p THEN Ret("cql2_json")
    ELSE IF DashToUnderscore(p["filter-lang"]) \notin ParserNames THEN Ret("cql2_json")
    ELSE Ret(DashToUnderscore(p["filter-lang"]))

\* getattr(Parsers, name)
GetParser(p) ==
    IF "filter-lang" \notin DOMAIN p
    THEN Raise(Exc("KeyError", "filter-lang", 0))
    ELSE IF DashToUnderscore(p["filter-lang"]) \notin ParserNames
    THEN Raise(Exc("AttributeError", DashToUnderscore(p["filter-lang"]), 0))
    ELSE Ret(DashToUnderscore(p["filter-lang"]))

\* parse(params["filter"]): cql2_json.parse takes a dict or a JSON str,
\* cql2_text.parse takes a str in the textual grammar
Parse(parser, f) ==
    IF parser = "cql2_json"
    THEN IF f.type = "dict" \/ (f.type = "str" /\ f.syntax = "json") THEN Ret(f.pred)
         ELSE Raise(Exc("ValueError", "cql2_json.parse", 0))
    ELSE IF f.type = "str" /\ f.syntax = "text" THEN Ret(f.pred)
         ELSE Raise(Exc("ValueError", "cql2_text.parse", 0))

\* to_filter(subset, ast, ...): the row-wise value of the predicate tree
EvalPred(ast, row) ==
    CASE ast = "idIsA" -> row.id = "a"
      [] ast = "inC2" -> row.collection = "c2"

Fail(r, e) == [exc |-> e, rows |-> <<>>]

PassIds(p, h, r) ==
    IF "ids" \in DOMAIN p
    THEN [r EXCEPT !.rows = SelectSeq(@, LAMBDA row : InSeq(row.id, p["ids"]))]
    ELSE r

PassCollections(p, h, r) ==
    IF "collections" \in DOMAIN p
    THEN [r EXCEPT !.rows =
            SelectSeq(@, LAMBDA row : InSeq(row.collection, p["collections"]))]
    ELSE r

PassBbox(p, h, r) ==
    IF "bbox" \in DOMAIN p
    THEN LET bbox_shape == Box(p["bbox"])
         IN IF bbox_shape.exc # NoErr THEN Fail(r, bbox_shape.exc)
            ELSE [r EXCEPT !.rows =
                    SelectSeq(@, LAMBDA row : Intersects(row.geometry, bbox_shape.v))]
    ELSE r

PassIntersects(p, h, r) ==
    IF "intersects" \in DOMAIN p
    THEN [r EXCEPT !.rows =
            SelectSeq(@, LAMBDA row : Intersects(row.geometry, h[p["intersects"]]))]
    ELSE r

PassFilter(p, h, r) ==
    IF "filter" \in DOMAIN p
    THEN LET parse == GetParser(p)
         IN IF parse.exc # NoErr THEN Fail(r, parse.exc)
            ELSE LET ast == Parse(parse.v, h[p["filter"]])
                 IN IF ast.exc # NoErr THEN Fail(r, ast.exc)
                    ELSE [r EXCEPT !.rows = SelectSeq(@, LAMBDA row : EvalPred(ast.v, row))]
    ELSE r

\* the datetime pass with an exclusive end bound
PassDatetimeStrict(p, h, r) ==
    IF "datetime" \in DOMAIN p
    THEN LET start == p["datetime"][1]
             end == p["datetime"][2]
         IN [r EXCEPT !.rows =
                SelectSeq(@, LAMBDA row : /\ (start # <<>> => row.datetime >= start[1])
                                          /\ (end # <<>> => row.datetime < end[1]))]
    ELSE r

PassDatetime(p, h, r) ==
    IF "datetime" \in DOMAIN p
    THEN LET start == p["datetime"][1]
             end == p["datetime"][2]
         IN [r EXCEPT !.rows =
                SelectSeq(@, LAMBDA row : /\ (start # <<>> => row.datetime >= start[1])
                                          /\ (end # <<>> => row.datetime <= end[1]))]
    ELSE r

\* One pass of _search; a pass is not entered once an earlier one has raised
Pass(name, p, h, r) ==
    IF r.exc # NoErr THEN r
    ELSE CASE name = "ids" -> PassIds(p, h, r)
           [] name = "collections" -> PassCollections(p, h, r)
           [] name = "bbox" -> PassBbox(p, h, r)
           [] name = "intersects" -> PassIntersects(p, h, r)
           [] name = "filter" -> PassFilter(p, h, r)
           [] name = "datetime" -> PassDatetime(p, h, r)

RECURSIVE ApplyPasses(_, _, _, _)
ApplyPasses(order, p, h, r) ==
    IF order = <<>> THEN r
    ELSE ApplyPasses(Tail(order), p, h, Pass(Head(order), p, h, r))

PassOrder == <<"ids", "collections", "bbox", "intersects", "filter", "datetime">>

\* _search(df, **params); h is the heap the parameters' references point into
Search(table, p, h) == ApplyPasses(PassOrder, p, h, [exc |-> NoErr, rows |-> table])

----------------------------------------------------------------------------
\* Construction

Keys == {"bbox", "datetime", "ids", "collections", "intersects", "filter", "filter-lang"}

KeyOrder == <<"bbox", "datetime", "ids", "collections", "intersects", "filter", "filter-lang">>

\* the dict literal `params` of __init__, entry by entry
ParamsLiteral(a, h) ==
    [k \in Keys |->
        CASE k = "bbox" -> FormatBbox(a.bbox)
          [] k = "datetime" -> FormatDatetime(a.datetime)
          [] k = "ids" -> FormatListlike(a.ids)
          [] k = "collections" -> FormatListlike(a.collections)
          [] k = "intersects" -> FormatIntersects(a.intersects, h)
          [] k = "filter" -> FormatFilter(a.filter, h)
          [] k = "filter-lang" -> FormatFilterLang(a.filter, a.filter_lang)]

\* the entries are evaluated in the order written: the first exception wins
RECURSIVE FirstExc(_, _)
FirstExc(params, order) ==
    IF order = <<>> THEN NoErr
    ELSE IF params[Head(order)].exc # NoErr THEN params[Head(order)].exc
    ELSE FirstExc(params, Tail(order))

IsRef(k) == k \in {"intersects", "filter"}

\* self._parameters = {k: v for k, v in params.items() if v is not None}
DropNone(params) ==
    [k \in {x \in Keys : params[x].some} |->
        IF IsRef(k) THEN params[k].v.ref ELSE params[k].v]

\* the objects the normalizers allocated
Allocate(params, h) ==
    IF params["intersects"].some
    THEN [h EXCEPT ![params["intersects"].v.ref] = params["intersects"].v.content]
    ELSE h

NoObservation ==
    [exc |-> NoErr, matched |-> <<>>, frame |-> <<>>, items |-> <<>>, dicts |-> <<>>]

\* ItemSearch.__init__
Construct ==
    /\ pc = "new"
    /\ materialized' = IsPystac(catalog)
    /\ LET table == IF IsPystac(catalog) THEN ToGeodataframe(catalog) ELSE catalog.items
           params == ParamsLiteral(args, heap)
           exc == FirstExc(params, KeyOrder)
       IN IF exc # NoErr
          THEN /\ pc' = "failed"
               /\ err' = exc
               /\ UNCHANGED <<df, parameters, heap>>
          ELSE /\ pc' = "ready"
               /\ err' = NoErr
               /\ df' = table
               /\ parameters' = DropNone(params)
               /\ heap' = Allocate(params, heap)
    /\ UNCHANGED <<catalog, args, result, itemCache, searchCalls, gens, last, tpc, tlocal>>

\* The caller changes, in place, the dict it passed as intersects
MutateIntersects ==
    /\ pc = "ready"
    /\ args.intersects.kind = "dict"
    /\ heap' = [heap EXCEPT !.intersectsArg = IF @ = GeoA THEN GeoB ELSE GeoA]
    /\ UNCHANGED <<catalog, args, pc, err, materialized, df, parameters, result,
                   itemCache, searchCalls, gens, last, tpc, tlocal>>

\* The caller changes, in place, the dict it passed as filter
MutateFilter ==
    /\ pc = "ready"
    /\ args.filter.kind = "dict"
    /\ heap' = [heap EXCEPT !.filterArg.pred = IF @ = "idIsA" THEN "inC2" ELSE "idIsA"]
    /\ UNCHANGED <<catalog, args, pc, err, materialized, df, parameters, result,
                   itemCache, searchCalls, gens, last, tpc, tlocal>>

----------------------------------------------------------------------------
\* The accessors, each called to completion by one caller

\* ItemSearch.parameters: a copy of the dict (the values are shared)
ParametersCopy == [k \in DOMAIN parameters |-> parameters[k]]

\* result as a plain property: every access runs _search
GetResultUncached ==
    LET r == Search(df, ParametersCopy, heap)
    IN [exc |-> r.exc, rows |-> r.rows,
        cell |-> IF r.exc = NoErr THEN <<r.rows>> ELSE <<>>, ran |-> 1]

\* ItemSearch.result (functools.cached_property): the value or exception of the
\* access, the cell afterwards, and whether _search ran
GetResult ==
    IF result # <<>>
    THEN [exc |-> NoErr, rows |-> result[1], cell |-> result, ran |-> 0]
    ELSE LET r == Search(df, ParametersCopy, heap)
         IN [exc |-> r.exc, rows |-> r.rows,
             cell |-> IF r.exc = NoErr THEN <<r.rows>> ELSE <<>>, ran |-> 1]

\* stac_geoparquet.to_item_collection: one pystac.Item per row
ToItemCollection(rows) ==
    [i \in 1..Len(rows) |->
        [type |-> "Item", id |-> rows[i].id, collection |-> rows[i].collection,
         geometry |-> rows[i].geometry, datetime |-> rows[i].datetime]]

\* pystac.Item.to_dict
ToDict(item) ==
    [type |-> "Feature", id |-> item.id, collection |-> item.collection,
     geometry |-> item.geometry, properties |-> [datetime |-> item.datetime]]

\* ItemSearch.item_collection (functools.cache)
GetItemCollection ==
    IF itemCache # <<>>
    THEN [exc |-> NoErr, items |-> itemCache[1], cell |-> result,
          icell |-> itemCache, ran |-> 0]
    ELSE LET g == GetResult
         IN [exc |-> g.exc, items |-> ToItemCollection(g.rows), cell |-> g.cell,
             icell |-> IF g.exc = NoErr THEN <<ToItemCollection(g.rows)>> ELSE <<>>,
             ran |-> g.ran]

\* an access runs _search only while the number of runs is below the bound
CanEvaluate == result # <<>> \/ searchCalls < MaxCalls

\* ItemSearch.matched
Matched ==
    /\ pc = "ready" /\ CanEvaluate
    /\ LET g == GetResult
       IN /\ result' = g.cell
          /\ searchCalls' = searchCalls + g.ran
          /\ last' = [last EXCEPT !.exc = g.exc,
                        !.matched = IF g.exc = NoErr THEN <<Len(g.rows)>> ELSE @]
    /\ UNCHANGED <<catalog, args, heap, pc, err, materialized, df, parameters,
                   itemCache, gens, tpc, tlocal>>

\* ItemSearch.as_geodataframe
AsGeodataframe ==
    /\ pc = "ready" /\ CanEvaluate
    /\ LET g == GetResult
       IN /\ result' = g.cell
          /\ searchCalls' = searchCalls + g.ran
          /\ last' = [last EXCEPT !.exc = g.exc,
                        !.frame = IF g.exc = NoErr THEN <<g.rows>> ELSE @]
    /\ UNCHANGED <<catalog, args, heap, pc, err, materialized, df, parameters,
                   itemCache, gens, tpc, tlocal>>

\* ItemSearch.item_collection
ItemCollection ==
    /\ pc = "ready" /\ CanEvaluate
    /\ LET c == GetItemCollection
       IN /\ result' = c.cell
          /\ itemCache' = c.icell
          /\ searchCalls' = searchCalls + c.ran
          /\ last' = [last EXCEPT !.exc = c.exc,
                        !.items = IF c.exc = NoErr THEN <<c.items>> ELSE @]
    /\ UNCHANGED <<catalog, args, heap, pc, err, materialized, df, parameters,
                   gens, tpc, tlocal>>

\* ItemSearch.items / items_as_dicts: the call only creates the generator
CreateGenerator(name) ==
    /\ pc = "ready"
    /\ name \notin gens
    /\ gens' = gens \cup {name}
    /\ UNCHANGED <<catalog, args, heap, pc, err, materialized, df, parameters, result,
                   itemCache, searchCalls, last, tpc, tlocal>>

\* the caller iterates the generator of items() to its end
IterateItems ==
    /\ pc = "ready" /\ CanEvaluate
    /\ "items" \in gens
    /\ gens' = gens \ {"items"}
    /\ LET c == GetItemCollection
       IN /\ result' = c.cell
          /\ itemCache' = c.icell
          /\ searchCalls' = searchCalls + c.ran
          /\ last' = [last EXCEPT !.exc = c.exc,
                        !.items = IF c.exc = NoErr THEN <<c.items>> ELSE @]
    /\ UNCHANGED <<catalog, args, heap, pc, err, materialized, df, parameters,
                   tpc, tlocal>>

\* the caller iterates the generator of items_as_dicts() to its end
IterateItemsAsDicts ==
    /\ pc = "ready" /\ CanEvaluate
    /\ "items_as_dicts" \in gens
    /\ gens' = gens \ {"items_as_dicts"}
    /\ LET c == GetItemCollection
       IN /\ result' = c.cell
          /\ itemCache' = c.icell
          /\ searchCalls' = searchCalls + c.ran
          /\ last' = [last EXCEPT !.exc = c.exc,
                        !.dicts = IF c.exc = NoErr
                                  THEN <<[i \in 1..Len(c.items) |-> ToDict(c.items[i])]>>
                                  ELSE @]
    /\ UNCHANGED <<catalog, args, heap, pc, err, materialized, df, parameters,
                   tpc, tlocal>>

----------------------------------------------------------------------------
\* Several threads reading self.result: the steps of cached_property.__get__

\* val = cache.get(self.attrname, _NOT_FOUND)
TLookup(t) ==
    /\ pc = "ready"
    /\ tpc[t] = "idle"
    /\ IF result # <<>>
       THEN /\ tpc' = [tpc EXCEPT ![t] = "done"]
            /\ tlocal' = [tlocal EXCEPT ![t] = result]
       ELSE /\ tpc' = [tpc EXCEPT ![t] = "compute"]
            /\ UNCHANGED tlocal
    /\ UNCHANGED <<catalog, args, heap, pc, err, materialized, df, parameters, result,
                   itemCache, searchCalls, gens, last>>

\* val = self.func(instance)
TCompute(t) ==
    /\ tpc[t] = "compute"
    /\ searchCalls' = searchCalls + 1
    /\ LET r == Search(df, ParametersCopy, heap)
       IN IF r.exc # NoErr
          THEN /\ tpc' = [tpc EXCEPT ![t] = "raised"]
               /\ UNCHANGED tlocal
          ELSE /\ tpc' = [tpc EXCEPT ![t] = "store"]
               /\ tlocal' = [tlocal EXCEPT ![t] = <<r.rows>>]
    /\ UNCHANGED <<catalog, args, heap, pc, err, materialized, df, parameters, result,
                   itemCache, gens, last>>

\* cache[self.attrname] = val; return val
TStore(t) ==
    /\ tpc[t] = "store"
    /\ result' = tlocal[t]
    /\ tpc' = [tpc EXCEPT ![t] = "done"]
    /\ UNCHANGED <<catalog, args, heap, pc, err, materialized, df, parameters,
                   itemCache, searchCalls, gens, last, tlocal>>

----------------------------------------------------------------------------
\* Inputs

Arg(kind, val) == [kind |-> kind, val |-> val]

FullTable == TableOf(1..MaxRecords, 1)

Catalogs(kinds, tables) == {[kind |-> k, items |-> t] : k \in kinds, t \in tables}

\* the caller's objects for the arguments a
Heaps(a) ==
    {[intersectsArg |-> g, intersectsOwn |-> <<>>,
      filterArg |-> [type |-> a.filter.kind,
                     syntax |-> IF a.filter.kind = "None" THEN "json" ELSE a.filter.val[1],
                     pred |-> q]] :
        g \in IF a.intersects.kind \in {"dict", "geo"} THEN {GeoA, GeoB} ELSE {GeoA},
        q \in IF a.filter.kind = "None" THEN {"idIsA"} ELSE {"idIsA", "inC2"}}

InitWith(catalogs, argset) ==
    /\ catalog \in catalogs
    /\ args \in argset
    /\ heap \in Heaps(args)
    /\ pc = "new"
    /\ err = NoErr
    /\ materialized = FALSE
    /\ df = <<>>
    /\ parameters = <<>>
    /\ result = <<>>
    /\ itemCache = <<>>
    /\ searchCalls = 0
    /\ gens = {}
    /\ last = NoObservation
    /\ tpc = [t \in Threads |-> "idle"]
    /\ tlocal = [t \in Threads |-> <<>>]

BboxAll ==
    {NoneArg, Arg("list", <<"0", "0", "1", "1">>),
     Arg("str", <<"0", ",", "0", ",", "3", ",", "1">>),
     Arg("list", <<"0", "0", "5", "3", "1", "9">>),
     Arg("str", <<"0", ",", "x">>)}

DatetimeAll ==
    {NoneArg, Arg("str", <<"2022">>), Arg("str", <<"..", "/", "2022-03">>),
     Arg("str", <<"2022-03", "/", "..">>), Arg("list", <<"2022-03-31", NoneTok>>),
     Arg("list", <<NoneTok, "2022-03">>), Arg("list", <<NoneTok, NoneTok>>),
     Arg("list", <<"2022", "2024-02">>), Arg("list", <<"2022", NoneTok, "2023">>),
     Arg("str", <<"2022", "/", "2023", "/", "2024-02">>), Arg("str", <<"bad">>)}

IdsAll == {NoneArg, Arg("str", <<"a", ",", "b">>), Arg("list", <<"b">>)}

CollectionsAll == {NoneArg, Arg("str", <<"c1">>)}

IntersectsAll ==
    {NoneArg, Arg("dict", <<>>), Arg("str", <<"{boxA}">>), Arg("geo", <<>>),
     Arg("int", <<>>), Arg("str", <<"not json">>)}

FilterAll ==
    {NoneArg, Arg("str", <<"text">>), Arg("str", <<"json">>), Arg("dict", <<"json">>),
     Arg("list", <<"json">>)}

FilterLangAll ==
    {NoneArg, Arg("str", <<"cql2-json">>), Arg("str", <<"cql2-text">>),
     Arg("str", <<"cql-json">>)}

ArgSpace(B, D, I, C, X, F, L) ==
    [bbox : B, datetime : D, ids : I, collections : C, intersects : X, filter : F,
     filter_lang : L]

----------------------------------------------------------------------------
\* Specifications

\* The life of one query object with a single caller
Init ==
    InitWith(Catalogs({"Catalog", "GeoDataFrame"}, {FullTable}),
             ArgSpace({NoneArg, Arg("list", <<"0", "0", "5", "3", "1", "9">>),
                       Arg("str", <<"0", ",", "x">>)},
                      {NoneArg, Arg("str", <<"2022-03", "/", "..">>),
                       Arg("list", <<NoneTok, NoneTok>>),
                       Arg("str", <<"2022", "/", "2023", "/", "2024-02">>)},
                      {NoneArg, Arg("str", <<"a", ",", "b">>)},
                      {NoneArg},
                      {NoneArg, Arg("dict", <<>>)},
                      {NoneArg, Arg("str", <<"text">>), Arg("dict", <<"json">>),
                       Arg("list", <<"json">>)},
                      {NoneArg, Arg("str", <<"cql2-json">>), Arg("str", <<"cql-json">>)}))

Next ==
    \/ Construct
    \/ MutateIntersects
    \/ MutateFilter
    \/ Matched
    \/ AsGeodataframe
    \/ ItemCollection
    \/ \E name \in {"items", "items_as_dicts"} : CreateGenerator(name)
    \/ IterateItems
    \/ IterateItemsAsDicts

Spec == Init /\ [][Next]_vars

\* Construction alone, over every combination of the arguments
InitNorm ==
    InitWith(Catalogs({"Catalog", "GeoDataFrame"}, {FullTable}),
             ArgSpace(BboxAll, DatetimeAll, IdsAll, CollectionsAll, IntersectsAll,
                      FilterAll, FilterLangAll))

NextNorm == Construct

SpecNorm == InitNorm /\ [][NextNorm]_vars

\* Construction and one evaluation, over the record collections
InitSearch ==
    InitWith(Catalogs({"GeoDataFrame"}, Tables),
             ArgSpace({NoneArg, Arg("list", <<"0", "0", "3", "1">>),
                       Arg("list", <<"0", "0", "5", "3", "1", "9">>)},
                      {NoneArg, Arg("str", <<"..", "/", "2022-03">>),
                       Arg("str", <<"2022-03", "/", "..">>)},
                      {NoneArg, Arg("list", <<"b">>)},
                      CollectionsAll,
                      {NoneArg, Arg("dict", <<>>)},
                      {NoneArg, Arg("str", <<"text">>)},
                      {NoneArg, Arg("str", <<"cql-json">>)}))

NextSearch == Construct \/ AsGeodataframe

SpecSearch == InitSearch /\ [][NextSearch]_vars

\* Several threads sharing one query object
InitThreads ==
    InitWith(Catalogs({"GeoDataFrame"}, Tables),
             ArgSpace({NoneArg}, {NoneArg, Arg("str", <<"2022-03", "/", "..">>)},
                      IdsAll, CollectionsAll, {NoneArg},
                      {NoneArg, Arg("str", <<"text">>)},
                      {NoneArg, Arg("str", <<"cql-json">>)}))

NextThreads ==
    \/ Construct
    \/ \E t \in Threads : TLookup(t)
    \/ \E t \in Threads : TCompute(t)
    \/ \E t \in Threads : TStore(t)

SpecThreads == InitThreads /\ [][NextThreads]_vars

----------------------------------------------------------------------------
\* Properties

\* The canonical parameters by value: references followed into the heap
CanonicalValues ==
    [k \in DOMAIN parameters |-> IF IsRef(k) THEN heap[parameters[k]] ELSE parameters[k]]

\* what the accessors have returned agrees with the cached match set
ObservedFrom(l, cell) ==
    /\ l.matched # <<>> => cell # <<>> /\ l.matched[1] = Len(cell[1])
    /\ l.frame # <<>> => cell # <<>> /\ l.frame[1] = cell[1]
    /\ l.items # <<>> => cell # <<>> /\ l.items[1] = ToItemCollection(cell[1])
    /\ l.dicts # <<>> =>
          /\ cell # <<>>
          /\ Len(l.dicts[1]) = Len(cell[1])
          /\ \A i \in 1..Len(cell[1]) : l.dicts[1][i].id = cell[1][i].id

\* the bbox pass can build its rectangle
BboxEvaluable == "bbox" \notin DOMAIN parameters \/ Len(parameters["bbox"]) \in {4, 5}

\* C1 as stated: over any sequence of accessor calls on one query object the
\* evaluation pass _search runs exactly once (never a second time). Stated for
\* the queries whose bbox the evaluator accepts.
C1_Original == BboxEvaluable => searchCalls <= 1

\* C1 amended: an evaluation that completes is cached: from then on no call
\* runs _search again, the cached match set never changes, and everything the
\* accessors return is that match set (matched() is the number of rows of
\* as_geodataframe()); an evaluation that raises caches nothing, and only
\* then does a later call run _search again.
C1_Theorem ==
    [][/\ result # <<>> => result' = result /\ searchCalls' = searchCalls
       /\ result = <<>> /\ result' # <<>> => searchCalls' = searchCalls + 1
       /\ searchCalls' # searchCalls /\ result' = <<>> => last'.exc # NoErr
       /\ ObservedFrom(last', result')
       /\ last'.matched # <<>> /\ last'.frame # <<>> =>
             last'.matched[1] = Len(last'.frame[1])]_vars

C1_Witness ==
    /\ result # <<>> /\ searchCalls = 1 /\ Len(result[1]) >= 1
    /\ last.matched # <<>> /\ last.frame # <<>> /\ last.items # <<>> /\ last.dicts # <<>>

\* C2: when several threads access the result of one query object before it
\* is cached and no evaluation raises, at most one evaluation pass runs.
C2_SingleFlight ==
    (\A t \in Threads : tpc[t] # "raised") => searchCalls <= 1

----------------------------------------------------------------------------
\* C3

\* the predicate a present parameter imposes on one record
Satisfies(k, row) ==
    CASE k = "ids" -> \E i \in DOMAIN parameters[k] : parameters[k][i] = row.id
      [] k = "collections" ->
            \E i \in DOMAIN parameters[k] : parameters[k][i] = row.collection
      [] k = "bbox" ->
            Intersects(row.geometry, <<parameters[k][1], parameters[k][2],
                                       parameters[k][3], parameters[k][4]>>)
      [] k = "intersects" -> Intersects(row.geometry, heap[parameters[k]])
      [] k = "filter" -> EvalPred(heap[parameters[k]].pred, row)
      [] k = "datetime" ->
            /\ parameters[k][1] # <<>> => row.datetime >= parameters[k][1][1]
            /\ parameters[k][2] # <<>> => row.datetime <= parameters[k][2][1]
      [] k = "filter-lang" -> TRUE

Conjunctive == SelectSeq(df, LAMBDA row : \A k \in DOMAIN parameters : Satisfies(k, row))

PassOrders ==
    {[i \in 1..Len(PassOrder) |-> PassOrder[f[i]]] : f \in Permutations(1..Len(PassOrder))}

\* C3: whenever _search produces a match set, it is the records that satisfy
\* all the active predicates together, every order of the passes produces the
\* same match set, and an order raises exactly when _search does.
C3_Theorem ==
    pc = "ready" =>
        LET s == Search(df, ParametersCopy, heap)
        IN /\ s.exc = NoErr => s.rows = Conjunctive
           /\ searchCalls = 0 => \A order \in PassOrders :
                 LET r == ApplyPasses(order, ParametersCopy, heap,
                                      [exc |-> NoErr, rows |-> df])
                 IN (r.exc = NoErr) = (s.exc = NoErr) /\ r.rows = s.rows
           /\ last.frame # <<>> => last.frame[1] = Conjunctive

C3_Witness ==
    /\ pc = "ready" /\ last.frame # <<>>
    /\ {"ids", "bbox", "datetime", "filter"} \subseteq DOMAIN parameters
    /\ Len(last.frame[1]) = 1 /\ Len(df) > 1

----------------------------------------------------------------------------
\* C4 .. C10

ArgOf(k) == IF k = "filter-lang" THEN args.filter_lang ELSE args[k]

RECURSIVE ElementsOf(_)
ElementsOf(toks) ==
    IF toks = <<>> THEN <<>>
    ELSE IF Head(toks) = "/" THEN ElementsOf(Tail(toks))
    ELSE <<Head(toks)>> \o ElementsOf(Tail(toks))

Open(el) == el \in {"..", NoneTok}

\* C5: for a datetime range of two elements the canonical pair keeps the
\* positions: start is None exactly when the left element is ".." or None,
\* else the first instant of the left period; end likewise from the right.
C5_Claim ==
    pc = "ready" /\ args.datetime.kind # "None" /\ Len(ElementsOf(args.datetime.val)) = 2 =>
        LET el == ElementsOf(args.datetime.val)
            start == IF Open(el[1]) THEN <<>> ELSE <<StartTime(ParsePeriod(el[1]))>>
            end == IF Open(el[2]) THEN <<>> ELSE <<EndTime(ParsePeriod(el[2]))>>
        IN IF Open(el[1]) /\ Open(el[2])
           THEN "datetime" \in DOMAIN parameters => parameters["datetime"] = <<start, end>>
           ELSE "datetime" \in DOMAIN parameters /\ parameters["datetime"] = <<start, end>>

\* the number of components of a datetime argument that are not None
NComponents(a) ==
    IF a.kind = "None" THEN 0
    ELSE Len(SelectSeq(ElementsOf(a.val), LAMBDA c : c # NoneTok))

BboxWellFormed(a) ==
    a.kind = "None" \/ \A i \in DOMAIN a.val : a.val[i] = "," \/ IsNumeric(a.val[i])

\* C6 as stated: three or more datetime components make construction fail
\* with a ParameterError naming the count; no object, no evaluation. Stated
\* for a well-formed bbox, which is normalized before the datetime.
C6_Original ==
    pc # "new" /\ NComponents(args.datetime) >= 3 /\ BboxWellFormed(args.bbox) =>
        /\ pc = "failed"
        /\ err.type = "ParameterError" /\ err.actual = NComponents(args.datetime)
        /\ searchCalls = 0 /\ result = <<>>

\* C6 amended: the exception is a plain Exception (unless the bbox, which is
\* normalized first, is itself malformed); its message names max=2 and the
\* actual count; no object is produced and no evaluation ever runs.
C6_Theorem ==
    pc # "new" /\ NComponents(args.datetime) >= 3 /\ BboxWellFormed(args.bbox) =>
        /\ pc = "failed"
        /\ err = Exc("Exception", "too many datetime components (max=2)",
                     NComponents(args.datetime))
        /\ parameters = <<>> /\ df = <<>>
        /\ searchCalls = 0 /\ result = <<>> /\ itemCache = <<>> /\ last = NoObservation

C6_Witness == pc = "failed" /\ err.type = "Exception" /\ err.actual = 3

\* C7: when construction fails on a malformed parameter, no record of the
\* catalog has been read: the materializer has not run.
C7_Claim == pc = "failed" => ~materialized

KnownLanguage ==
    IF args.filter_lang.kind # "None"
    THEN args.filter_lang.val[1] \in {"cql2-json", "cql2-text"}
    ELSE args.filter.kind \in {"str", "dict"}

UnknownLanguageCase == args.filter.kind # "None" /\ ~KnownLanguage

\* C8 as stated: with a filter whose language maps to no parser, the access
\* that triggers evaluation fails with UnsupportedFilterLanguage. Stated for
\* the queries whose bbox the evaluator accepts.
C8_Original ==
    pc = "ready" /\ UnknownLanguageCase /\ BboxEvaluable /\ searchCalls >= 1 =>
        last.exc.type = "UnsupportedFilterLanguage" /\ result = <<>>

\* C8 amended: construction succeeds when the other arguments are well
\* formed, and every access that triggers evaluation raises and caches no
\* match set; unless the bbox pass raised first, the exception is the
\* KeyError of the missing "filter-lang" key when no language was given or
\* inferred, and the AttributeError of the parser lookup for an unknown tag.
C8_Theorem ==
    UnknownLanguageCase =>
        /\ pc # "new" /\ BboxWellFormed(args.bbox) /\ NComponents(args.datetime) <= 2
              => pc = "ready"
        /\ pc = "ready" /\ searchCalls >= 1 =>
              /\ last.exc # NoErr
              /\ result = <<>> /\ itemCache = <<>>
              /\ last.matched = <<>> /\ last.frame = <<>>
              /\ last.items = <<>> /\ last.dicts = <<>>
              /\ BboxEvaluable =>
                    last.exc = IF args.filter_lang.kind = "None"
                               THEN Exc("KeyError", "filter-lang", 0)
                               ELSE Exc("AttributeError", "cql_json", 0)

C8_Witness ==
    /\ pc = "ready" /\ UnknownLanguageCase /\ searchCalls >= 2
    /\ last.exc.type = "KeyError"

\* C9: once the object is constructed, nothing the caller does to the dicts
\* it passed changes the object's canonical parameters.
C9_Claim == [][pc = "ready" => CanonicalValues' = CanonicalValues]_vars

\* C10: a bbox of 6 components is evaluated as the rectangle
\* (min_x, min_y, max_x, max_y): the access returns the records whose
\* geometry intersects it.
C10_Claim ==
    /\ pc = "ready" /\ DOMAIN parameters = {"bbox"}
    /\ Len(parameters["bbox"]) = 6 /\ searchCalls >= 1
    => /\ last.exc = NoErr
       /\ last.frame =
            <<SelectSeq(df, LAMBDA row :
                Intersects(row.geometry, <<parameters["bbox"][1], parameters["bbox"][2],
                                           parameters["bbox"][4], parameters["bbox"][5]>>))>>

====
